---- MODULE Spec2Model ----
(***************************************************************************)
(* Model of the retry-until-pass evaluation loop of src/app.py:            *)
(* count_tokens, test_code (the executor), and the two request handlers    *)
(* path1 (generate -> test -> retry) and path2 (generate -> validate ->    *)
(* test -> retry).                                                         *)
(*                                                                         *)
(* Text is a sequence of tokens.  "WS" is a run of whitespace, "FENCE" a   *)
(* code fence (three backticks), "python"/"json"/"js" a bare language tag, *)
(* "prose" one word of prose, SRC_* a Python source fragment and J_* a     *)
(* JSON text.  Tokens that are adjacent in the sequence are adjacent in    *)
(* the text, so <<"FENCE", "python">> is a fence directly followed by the  *)
(* word python.                                                            *)
(*                                                                         *)
(* Units: elapsed times are milliseconds, recorded times hundredths of a   *)
(* second (round(x, 2)); costs are computed in 1e-8 dollars and recorded   *)
(* in 1e-6 dollars (round(x, 6)).                                          *)
(*                                                                         *)
(* Specifications: Spec is one invocation of a handler, SpecFair the same  *)
(* with the handler kept running, SpecPair two invocations interleaved,    *)
(* SpecExec test_code called on its own and SpecTokens count_tokens.       *)
(***************************************************************************)
EXTENDS Integers, Sequences, FiniteSets, TLC

\* ------------------------------------------------------------------------
\* Python values, as far as the executor's comparison can tell them apart
\* ------------------------------------------------------------------------
PyInt(n) == [t |-> "int", v |-> n]
PyBool(b) == [t |-> "bool", v |-> IF b THEN 1 ELSE 0]
PyFloat(n) == [t |-> "float", v |-> n]
PyStr(s) == [t |-> "str", v |-> s]
PyList(s) == [t |-> "list", v |-> s]
PyNone == [t |-> "none", v |-> 0]
NoValue == [t |-> "absent", v |-> 0]

IsNumber(a) == a.t \in {"int", "bool", "float"}

\* Python's == on the values above: bool is a subclass of int and numbers
\* of different types compare by numeric value; None, str and list are equal
\* only to a value of their own type.
RECURSIVE PyEq(_, _)
PyEq(a, b) ==
    IF IsNumber(a) /\ IsNumber(b) THEN a.v = b.v
    ELSE IF a.t # b.t THEN FALSE
    ELSE IF a.t = "none" THEN TRUE
    ELSE IF a.t = "str" THEN a.v = b.v
    ELSE IF a.t = "list"
         THEN /\ Len(a.v) = Len(b.v)
              /\ \A i \in 1..Len(a.v) : PyEq(a.v[i], b.v[i])
    ELSE FALSE

\* bool(x), as used by "if not openai_approved"
Truthy(a) ==
    IF IsNumber(a) THEN a.v # 0
    ELSE IF a.t = "none" THEN FALSE
    ELSE IF a.t = "str" THEN a.v # ""
    ELSE IF a.t = "list" THEN Len(a.v) > 0
    ELSE FALSE

\* ------------------------------------------------------------------------
\* Text
\* ------------------------------------------------------------------------
\* Whitespace-delimited words inside one token.
TokenWords(tok) ==
    CASE tok = "WS" -> 0
      [] tok = "SRC_DOUBLE" -> 4      \* def f(x): return x*2
      [] tok = "SRC_IDENT" -> 4       \* def f(x): return x
      [] tok = "SRC_ONE" -> 4         \* def f(x): return 1
      [] tok = "SRC_EVEN" -> 8        \* def f(x): return x % 2 == 0
      [] tok = "SRC_ADD" -> 7         \* def f(a, b): return a + b
      [] tok = "SRC_NONE" -> 3        \* def f(x): pass
      [] tok = "SRC_G" -> 4           \* def g(x): return x
      [] tok = "SRC_VAR" -> 3         \* f = 5
      [] tok = "SRC_RAISE" -> 4       \* def f(x): raise ValueError('no')
      [] tok = "SRC_EXIT_CALL" -> 4   \* def f(x): raise SystemExit
      [] tok = "SRC_EXIT_LOAD" -> 2   \* raise SystemExit
      [] tok = "SRC_LOADERR" -> 3     \* f = 1/0
      [] tok = "SRC_SYNTAX" -> 4      \* def f(x) return x
      [] tok = "J_TRUE" -> 4          \* {"valid": true, "reason": "ok"}
      [] tok = "J_FALSE" -> 4         \* {"valid": false, "reason": "wrong"}
      [] tok = "J_NOKEY" -> 2         \* {"reason": "unsure"}
      [] tok = "J_STR" -> 2           \* {"valid": "false"}
      [] tok = "J_LIST" -> 1          \* [true]
      [] tok = "GEN_HEAD" -> 10       \* generation template up to "Requirement:"
      [] tok = "GEN_TAIL" -> 43       \* generation template from "CRITICAL RULES:"
      [] tok = "VAL_HEAD" -> 13       \* validation template up to "REQUIREMENT:"
      [] tok = "VAL_MID" -> 1         \* "CODE:"
      [] tok = "VAL_TAIL" -> 25       \* validation template from "Check:"
      [] OTHER -> 1

\* len(text.split()): words of the tokens, less one for every two tokens
\* that touch (the last word of one runs into the first word of the next).
RECURSIVE WordCount(_)
WordCount(text) ==
    IF Len(text) = 0 THEN 0
    ELSE LET rest == Tail(text)
             joined == /\ Len(rest) > 0
                       /\ text[1] # "WS"
                       /\ rest[1] # "WS"
         IN TokenWords(text[1]) + WordCount(rest) - (IF joined THEN 1 ELSE 0)

\* A count that rounds to the nearest integer.
count_tokens_rounded(text) == (WordCount(text) * 13 + 5) \div 10

\* int(len(text.split()) * 1.3)
count_tokens(text) == (WordCount(text) * 13) \div 10

\* str.strip()
RECURSIVE LStrip(_)
LStrip(text) ==
    IF Len(text) > 0 /\ text[1] = "WS" THEN LStrip(Tail(text)) ELSE text

RECURSIVE RStrip(_)
RStrip(text) ==
    IF Len(text) > 0 /\ text[Len(text)] = "WS"
    THEN RStrip(SubSeq(text, 1, Len(text) - 1))
    ELSE text

Strip(text) == RStrip(LStrip(text))

\* Positions where a fence directly followed by tag starts; tag "" is the
\* bare fence.
FenceAt(text, tag) ==
    {i \in 1..Len(text) :
        /\ text[i] = "FENCE"
        /\ tag # "" => (i < Len(text) /\ text[i + 1] = tag)}

Min(S) == CHOOSE x \in S : \A y \in S : x <= y

\* s.split(FENCE)[0]
BeforeFence(text) ==
    IF FenceAt(text, "") = {} THEN text
    ELSE SubSeq(text, 1, Min(FenceAt(text, "")) - 1)

\* s.split(FENCE + tag)[1].split(FENCE)[0].strip(), for s containing FENCE + tag
FirstBlock(text, tag) ==
    LET i == Min(FenceAt(text, tag))
        skip == IF tag = "" THEN 1 ELSE 2
    IN Strip(BeforeFence(SubSeq(text, i + skip, Len(text))))

\* "Clean markdown if present" of path1 and path2
CleanMarkdown(code) ==
    IF FenceAt(code, "python") # {} THEN FirstBlock(code, "python")
    ELSE IF FenceAt(code, "") # {} THEN FirstBlock(code, "")
    ELSE code

\* ------------------------------------------------------------------------
\* The validator's reply
\* ------------------------------------------------------------------------
\* What json.loads makes of a token: ok (it is a JSON text), isDict, and the
\* value under the key valid when there is one.
JsonValue(tok) ==
    CASE tok = "J_TRUE" ->
            [ok |-> TRUE, isDict |-> TRUE, hasValid |-> TRUE, valid |-> PyBool(TRUE)]
      [] tok = "J_FALSE" ->
            [ok |-> TRUE, isDict |-> TRUE, hasValid |-> TRUE, valid |-> PyBool(FALSE)]
      [] tok = "J_NOKEY" ->
            [ok |-> TRUE, isDict |-> TRUE, hasValid |-> FALSE, valid |-> NoValue]
      [] tok = "J_STR" ->
            [ok |-> TRUE, isDict |-> TRUE, hasValid |-> TRUE, valid |-> PyStr("false")]
      [] tok = "J_LIST" ->
            [ok |-> TRUE, isDict |-> FALSE, hasValid |-> FALSE, valid |-> NoValue]
      [] OTHER ->
            [ok |-> FALSE, isDict |-> FALSE, hasValid |-> FALSE, valid |-> NoValue]

NotWs(tok) == tok # "WS"

\* json.loads(text): the text is one JSON value, whitespace around it allowed.
json_loads(text) ==
    LET body == SelectSeq(text, NotWs)
    IN IF Len(body) = 1 THEN JsonValue(body[1]) ELSE JsonValue("")

\* "Parse validation" of path2: the value of openai_approved.  A reply that
\* does not parse raises inside the try, a parsed value that is no dict
\* raises AttributeError on .get; the bare except turns both into False.
ParseValidationFailOpen(validation_text) ==
    LET text == IF FenceAt(validation_text, "json") # {}
                THEN FirstBlock(validation_text, "json")
                ELSE validation_text
        j == json_loads(text)
    IN IF ~j.ok \/ ~j.isDict \/ ~j.hasValid THEN PyBool(TRUE) ELSE j.valid

ParseValidation(validation_text) ==
    LET text == IF FenceAt(validation_text, "json") # {}
                THEN FirstBlock(validation_text, "json")
                ELSE validation_text
        j == json_loads(text)
    IN IF ~j.ok THEN PyBool(FALSE)
       ELSE IF ~j.isDict THEN PyBool(FALSE)
       ELSE IF j.hasValid THEN j.valid
       ELSE PyBool(FALSE)

\* ------------------------------------------------------------------------
\* The executor: test_code
\* ------------------------------------------------------------------------
FuncNames == {"f", "g"}

Unbound == [bound |-> FALSE, callable |-> FALSE, arity |-> 0, body |-> "", val |-> NoValue]
NonCallable == [bound |-> TRUE, callable |-> FALSE, arity |-> 0, body |-> "", val |-> NoValue]
Def(n, b, x) == [bound |-> TRUE, callable |-> TRUE, arity |-> n, body |-> b, val |-> x]

\* What executing one token of source does: syntax_ok (it compiles), and its
\* effect when run: bind a name, raise an Exception, raise SystemExit, nothing.
Stmt(tok) ==
    CASE tok = "WS" ->
            [syntax_ok |-> TRUE, effect |-> "nop", name |-> "", binding |-> Unbound]
      [] tok = "SRC_DOUBLE" ->
            [syntax_ok |-> TRUE, effect |-> "bind", name |-> "f",
             binding |-> Def(1, "double", NoValue)]
      [] tok = "SRC_IDENT" ->
            [syntax_ok |-> TRUE, effect |-> "bind", name |-> "f",
             binding |-> Def(1, "ident", NoValue)]
      [] tok = "SRC_ONE" ->
            [syntax_ok |-> TRUE, effect |-> "bind", name |-> "f",
             binding |-> Def(1, "const", PyInt(1))]
      [] tok = "SRC_EVEN" ->
            [syntax_ok |-> TRUE, effect |-> "bind", name |-> "f",
             binding |-> Def(1, "even", NoValue)]
      [] tok = "SRC_ADD" ->
            [syntax_ok |-> TRUE, effect |-> "bind", name |-> "f",
             binding |-> Def(2, "add", NoValue)]
      [] tok = "SRC_NONE" ->
            [syntax_ok |-> TRUE, effect |-> "bind", name |-> "f",
             binding |-> Def(1, "const", PyNone)]
      [] tok = "SRC_G" ->
            [syntax_ok |-> TRUE, effect |-> "bind", name |-> "g",
             binding |-> Def(1, "ident", NoValue)]
      [] tok = "SRC_VAR" ->
            [syntax_ok |-> TRUE, effect |-> "bind", name |-> "f", binding |-> NonCallable]
      [] tok = "SRC_RAISE" ->
            [syntax_ok |-> TRUE, effect |-> "bind", name |-> "f",
             binding |-> Def(1, "raise", NoValue)]
      [] tok = "SRC_EXIT_CALL" ->
            [syntax_ok |-> TRUE, effect |-> "bind", name |-> "f",
             binding |-> Def(1, "exit", NoValue)]
      [] tok = "SRC_EXIT_LOAD" ->
            [syntax_ok |-> TRUE, effect |-> "exit", name |-> "", binding |-> Unbound]
      [] tok = "SRC_LOADERR" ->
            [syntax_ok |-> TRUE, effect |-> "raise", name |-> "", binding |-> Unbound]
      [] tok \in {"python", "json", "js"} ->
            \* a bare identifier: NameError when run
            [syntax_ok |-> TRUE, effect |-> "raise", name |-> "", binding |-> Unbound]
      [] OTHER ->
            \* prose, a fence, SRC_SYNTAX, JSON text
            [syntax_ok |-> FALSE, effect |-> "nop", name |-> "", binding |-> Unbound]

\* The executor on its own: the namespace each call so far has built, oldest
\* first (history; the code drops the namespace when the call returns).
VARIABLE exHist

\* A namespace that outlives the call: the next call starts from what the
\* last one left.
LeakedNamespace ==
    IF exHist = <<>> THEN [n \in FuncNames |-> Unbound] ELSE exHist[Len(exHist)]

\* namespace = {}
EmptyNamespace == [n \in FuncNames |-> Unbound]

\* Statements run in order; the first one that raises ends the load.
RECURSIVE RunStmts(_, _)
RunStmts(code, namespace) ==
    IF Len(code) = 0 THEN [status |-> "ok", ns |-> namespace]
    ELSE LET s == Stmt(code[1])
         IN CASE s.effect = "bind" ->
                    RunStmts(Tail(code), [namespace EXCEPT ![s.name] = s.binding])
              [] s.effect = "raise" -> [status |-> "Exception", ns |-> namespace]
              [] s.effect = "exit" -> [status |-> "SystemExit", ns |-> namespace]
              [] OTHER -> RunStmts(Tail(code), namespace)

\* exec(code, namespace) on a fresh namespace.  The whole text is compiled
\* first: a token that does not compile, or two tokens run together, is a
\* SyntaxError and nothing runs.
Exec(code) ==
    LET touching == \E i \in 1..(Len(code) - 1) : code[i] # "WS" /\ code[i + 1] # "WS"
        bad == \E i \in 1..Len(code) : ~Stmt(code[i]).syntax_ok
    IN IF touching \/ bad
       THEN [status |-> "SyntaxError", ns |-> EmptyNamespace]
       ELSE RunStmts(code, EmptyNamespace)

Returns(x) == [raised |-> "none", value |-> x]
Raises(e) == [raised |-> e, value |-> NoValue]

\* func(*args) for the function bodies of the source fragments.
Call(func, args) ==
    IF Len(args) # func.arity THEN Raises("Exception")      \* TypeError
    ELSE CASE func.body = "ident" -> Returns(args[1])
           [] func.body = "const" -> Returns(func.val)
           [] func.body = "double" ->
                LET a == args[1]
                IN CASE a.t \in {"int", "bool"} -> Returns(PyInt(2 * a.v))
                     [] a.t = "float" -> Returns(PyFloat(2 * a.v))
                     [] a.t = "str" -> Returns(PyStr(a.v \o a.v))
                     [] a.t = "list" -> Returns(PyList(a.v \o a.v))
                     [] OTHER -> Raises("Exception")
           [] func.body = "even" ->
                LET a == args[1]
                IN IF IsNumber(a) THEN Returns(PyBool(a.v % 2 = 0))
                   ELSE Raises("Exception")
           [] func.body = "add" ->
                LET a == args[1]
                    b == args[2]
                IN CASE IsNumber(a) /\ IsNumber(b) ->
                          IF "float" \in {a.t, b.t}
                          THEN Returns(PyFloat(a.v + b.v))
                          ELSE Returns(PyInt(a.v + b.v))
                     [] a.t = "str" /\ b.t = "str" -> Returns(PyStr(a.v \o b.v))
                     [] a.t = "list" /\ b.t = "list" -> Returns(PyList(a.v \o b.v))
                     [] OTHER -> Raises("Exception")
           [] func.body = "exit" -> Raises("SystemExit")
           [] OTHER -> Raises("Exception")                  \* raise ValueError

\* A call that never spreads: func(inputs)
ArgsNoSpread(inputs) == <<inputs>>

\* isinstance(inputs, list): func(*inputs), else func(inputs)
Args(inputs) == IF inputs.t = "list" THEN inputs.v ELSE <<inputs>>

Msg(k, fn, inp, res, exp) ==
    [kind |-> k, func |-> fn, input |-> inp, result |-> res, expected |-> exp]

AllPassed == Msg("All tests passed", "", NoValue, NoValue, NoValue)

\* What test_code hands back: a (passed, message) pair, or an exception that
\* leaves the function (raised).  calls holds the argument tuple of every
\* call of func made, in order: args keeps it, invoked counts it, and reached
\* is the number of test cases looked at.
Outcome(p, m, calls, cases) ==
    [raised |-> "none", passed |-> p, message |-> m,
     invoked |-> Len(calls), args |-> calls, reached |-> cases]

Propagated(e, calls, cases) ==
    [raised |-> e, passed |-> FALSE, message |-> Msg("", "", NoValue, NoValue, NoValue),
     invoked |-> Len(calls), args |-> calls, reached |-> cases]

\* result != expected
Mismatch(result, expected) == ~PyEq(result, expected)

\* A for loop that runs the remaining test cases before it reports a wrong
\* value.
RECURSIVE RunCasesRunsAll(_, _, _, _)
RunCasesRunsAll(namespace, test_cases, i, calls) ==
    IF i > Len(test_cases) THEN Outcome(TRUE, AllPassed, calls, i - 1)
    ELSE LET test == test_cases[i]
             func == namespace[test.function]
             args == Args(test.input)
             r == Call(func, args)
             made == Append(calls, args)
             rest == RunCasesRunsAll(namespace, test_cases, i + 1, made)
         IN IF ~func.bound
            THEN Outcome(FALSE, Msg("Function not found in code", test.function,
                                    NoValue, NoValue, NoValue), calls, i)
            ELSE IF ~func.callable
            THEN Outcome(FALSE, Msg("is not a function", test.function,
                                    NoValue, NoValue, NoValue), calls, i)
            ELSE IF r.raised = "Exception"
            THEN Outcome(FALSE, Msg("Function crashed", "", NoValue, NoValue, NoValue),
                         made, i)
            ELSE IF r.raised # "none"
            THEN Propagated(r.raised, made, i)
            ELSE IF Mismatch(r.value, test.expected) /\ rest.raised = "none" /\ rest.passed
            THEN Outcome(FALSE, Msg("Test failed", test.function, test.input, r.value,
                                    test.expected), rest.args, rest.reached)
            ELSE rest

\* A for loop that calls whatever the name is bound to.
RECURSIVE RunCasesNoCallableCheck(_, _, _, _)
RunCasesNoCallableCheck(namespace, test_cases, i, calls) ==
    IF i > Len(test_cases) THEN Outcome(TRUE, AllPassed, calls, i - 1)
    ELSE LET test == test_cases[i]
             func == namespace[test.function]
             args == Args(test.input)
             r == Call(func, args)
             made == Append(calls, args)
         IN IF ~func.bound
            THEN Outcome(FALSE, Msg("Function not found in code", test.function,
                                    NoValue, NoValue, NoValue), calls, i)
            ELSE IF r.raised = "Exception"
            THEN Outcome(FALSE, Msg("Function crashed", "", NoValue, NoValue, NoValue),
                         made, i)
            ELSE IF r.raised # "none"
            THEN Propagated(r.raised, made, i)
            ELSE IF Mismatch(r.value, test.expected)
            THEN Outcome(FALSE, Msg("Test failed", test.function, test.input, r.value,
                                    test.expected), made, i)
            ELSE RunCasesNoCallableCheck(namespace, test_cases, i + 1, made)

\* The for loop of test_code from test case i on, calls the invocations made
\* so far.
RECURSIVE RunCases(_, _, _, _)
RunCases(namespace, test_cases, i, calls) ==
    IF i > Len(test_cases) THEN Outcome(TRUE, AllPassed, calls, i - 1)
    ELSE LET test == test_cases[i]
             func_name == test.function
             inputs == test.input
             expected == test.expected
             func == namespace[func_name]
             args == Args(inputs)
             r == Call(func, args)
             made == Append(calls, args)
         IN IF ~func.bound
            THEN Outcome(FALSE, Msg("Function not found in code", func_name,
                                    NoValue, NoValue, NoValue), calls, i)
            ELSE IF ~func.callable
            THEN Outcome(FALSE, Msg("is not a function", func_name,
                                    NoValue, NoValue, NoValue), calls, i)
            ELSE IF r.raised = "Exception"
            THEN Outcome(FALSE, Msg("Function crashed", "", NoValue, NoValue, NoValue),
                         made, i)
            ELSE IF r.raised # "none"
            THEN Propagated(r.raised, made, i)
            ELSE IF Mismatch(r.value, expected)
            THEN Outcome(FALSE, Msg("Test failed", func_name, inputs, r.value, expected),
                         made, i)
            ELSE RunCases(namespace, test_cases, i + 1, made)

\* An executor that refuses an empty list of test cases.
test_code_needs_a_case(code, test_cases) ==
    LET loaded == Exec(code)
    IN CASE loaded.status = "SyntaxError" ->
              Outcome(FALSE, Msg("Syntax error in code", "", NoValue, NoValue, NoValue), <<>>, 0)
         [] loaded.status = "Exception" ->
              Outcome(FALSE, Msg("Code execution error", "", NoValue, NoValue, NoValue), <<>>, 0)
         [] loaded.status = "SystemExit" -> Propagated("SystemExit", <<>>, 0)
         [] test_cases = <<>> ->
              Outcome(FALSE, Msg("Code execution error", "", NoValue, NoValue, NoValue), <<>>, 0)
         [] OTHER -> RunCases(loaded.ns, test_cases, 1, <<>>)

test_code(code, test_cases) ==
    LET loaded == Exec(code)
    IN CASE loaded.status = "SyntaxError" ->
              Outcome(FALSE, Msg("Syntax error in code", "", NoValue, NoValue, NoValue), <<>>, 0)
         [] loaded.status = "Exception" ->
              Outcome(FALSE, Msg("Code execution error", "", NoValue, NoValue, NoValue), <<>>, 0)
         [] loaded.status = "SystemExit" -> Propagated("SystemExit", <<>>, 0)
         [] OTHER -> RunCases(loaded.ns, test_cases, 1, <<>>)

\* ------------------------------------------------------------------------
\* Pricing and rounding
\* ------------------------------------------------------------------------
\* Prices per token, in 1e-8 dollars.
GEMINI_INPUT_COST == 30
GEMINI_OUTPUT_COST == 250
OPENAI_INPUT_COST == 15
OPENAI_OUTPUT_COST == 60

max_attempts == 10

\* round(): n / d to the nearest integer, a tie to the even one.
RoundDiv(n, d) ==
    LET q == n \div d
        r == n % d
    IN IF 2 * r < d THEN q
       ELSE IF 2 * r > d THEN q + 1
       ELSE IF q % 2 = 0 THEN q ELSE q + 1

\* round(seconds, 2), from milliseconds to hundredths
Round2(ms) == RoundDiv(ms, 10)
\* round(dollars, 6), from 1e-8 dollars to 1e-6 dollars
Round6(c) == RoundDiv(c, 100)

\* ------------------------------------------------------------------------
\* The requests and the two providers
\* ------------------------------------------------------------------------
TestCase(fn, inp, exp) == [function |-> fn, input |-> inp, expected |-> exp]

\* request.json: the prompt and its test cases
Requests ==
    { [prompt |-> <<"prose", "WS", "prose", "WS", "prose">>,
       test_cases |-> <<TestCase("f", PyInt(5), PyInt(10))>>],
      [prompt |-> <<"prose", "WS", "prose">>,
       test_cases |-> <<TestCase("f", PyInt(4), PyBool(TRUE)),
                        TestCase("f", PyInt(7), PyBool(FALSE))>>],
      [prompt |-> <<"prose">>, test_cases |-> <<>>] }

\* What gemini.generate_content can do: raise, or reply text after elapsed ms.
GenReplies ==
    { [raises |-> FALSE, elapsed |-> 1204, text |-> <<"SRC_DOUBLE", "WS">>],
      [raises |-> FALSE, elapsed |-> 2348,
       text |-> <<"FENCE", "python", "WS", "SRC_EVEN", "WS", "FENCE">>],
      [raises |-> FALSE, elapsed |-> 816,
       text |-> <<"prose", "WS", "FENCE", "WS", "SRC_SYNTAX", "WS", "FENCE">>],
      [raises |-> FALSE, elapsed |-> 391, text |-> <<"SRC_EXIT_LOAD">>],
      [raises |-> TRUE, elapsed |-> 0, text |-> <<>>] }

\* What openai_client.chat.completions.create can do.
ValReplies ==
    { [raises |-> FALSE, elapsed |-> 642,
       text |-> <<"FENCE", "json", "WS", "J_TRUE", "WS", "FENCE">>],
      [raises |-> FALSE, elapsed |-> 503, text |-> <<"J_FALSE">>],
      [raises |-> FALSE, elapsed |-> 777, text |-> <<"prose", "WS", "J_TRUE">>],
      [raises |-> FALSE, elapsed |-> 458, text |-> <<"J_NOKEY">>],
      [raises |-> FALSE, elapsed |-> 529, text |-> <<"J_STR">>],
      [raises |-> TRUE, elapsed |-> 0, text |-> <<>>] }

NoReply == [raises |-> TRUE, elapsed |-> 0, text |-> <<>>]

\* The providers' behaviour in one attempt.  path1 never calls the validator.
Worlds(p) ==
    IF p = "path1"
    THEN {[gen |-> g, val |-> NoReply] : g \in GenReplies}
    ELSE {[gen |-> g, val |-> v] : g \in GenReplies, v \in ValReplies}

\* In an invocation the providers answer as usual in every attempt but at
\* most MaxUnusual of them, and in those one of the two answers otherwise.
MaxUnusual == 1

\* The generation_prompt f-string
GenerationPrompt(prompt_text) ==
    <<"GEN_HEAD", "WS">> \o prompt_text \o <<"WS", "GEN_TAIL">>

\* The validation_prompt f-string
ValidationPrompt(prompt_text, code) ==
    <<"VAL_HEAD", "WS">> \o prompt_text \o <<"WS", "VAL_MID", "WS">>
        \o code \o <<"WS", "VAL_TAIL">>

Rejected == Msg("OpenAI rejected - did not run unit test", "", NoValue, NoValue, NoValue)

\* ------------------------------------------------------------------------
\* State
\* ------------------------------------------------------------------------
VARIABLES
    path,               \* the handler invoked: "path1" or "path2"
    request,            \* request.json
    pc,                 \* where the handler is
    generation_prompt,
    attempt,            \* the loop variable, 0-based
    attempts,
    passed,
    code,
    loc,                \* the other locals of the loop body
    report,             \* what jsonify is given, <<>> before that
    fault,              \* the exception that left the handler, "none" if none
    usual,              \* the providers' usual behaviour in this invocation
    world,              \* their behaviour in the current attempt
    unusual,            \* attempts so far in which they did not answer as usual
    log,                \* history: what each loop iteration did
    exIn,               \* executor alone: the arguments of the last call
    exOut,              \* executor alone: its outcome
    exN,                \* executor alone: calls made
    tkText,             \* count_tokens alone: the text of the last call
    tkCount,            \* count_tokens alone: what it returned
    tkN,                \* count_tokens alone: calls made
    cmReply,            \* markdown cleaning alone: the reply of the last run
    cmCode,             \* markdown cleaning alone: the code it left
    cmN,                \* markdown cleaning alone: runs made
    other,              \* two invocations: the locals of the one not running
    running             \* two invocations: the one running, 1 or 2

loopVars == <<path, request, pc, generation_prompt, attempt, attempts, passed,
              code, loc, report, fault, usual, world, unusual, log>>
exVars == <<exIn, exOut, exN, exHist>>
tkVars == <<tkText, tkCount, tkN>>
cmVars == <<cmReply, cmCode, cmN>>
pairVars == <<other, running>>
vars == <<loopVars, exVars, tkVars, cmVars, pairVars>>

NoLocals ==
    [elapsed |-> 0, in_tokens |-> 0, out_tokens |-> 0, cost |-> 0,
     openai_time |-> 0, openai_in |-> 0, openai_out |-> 0, openai_cost |-> 0,
     validation_text |-> <<>>, openai_approved |-> NoValue]

LogEntry(g) ==
    [gen |-> g, prompt |-> <<>>, val |-> "none", validation_text |-> <<>>,
     approved |-> NoValue, exec |-> "none", tokens |-> 0]

Init ==
    /\ path \in {"path1", "path2"}
    /\ request \in Requests
    /\ pc = "start"
    /\ generation_prompt = <<>>
    /\ attempt = 0
    /\ attempts = <<>>
    /\ passed = FALSE
    /\ code = <<>>
    /\ loc = NoLocals
    /\ report = <<>>
    /\ fault = "none"
    /\ usual \in Worlds(path)
    /\ world = usual
    /\ unusual = 0
    /\ log = <<>>
    /\ exIn = <<>>
    /\ exOut = <<>>
    /\ exN = 0
    /\ exHist = <<>>
    /\ tkText = <<>>
    /\ tkCount = 0
    /\ tkN = 0
    /\ cmReply = <<>>
    /\ cmCode = <<>>
    /\ cmN = 0
    /\ other = <<>>
    /\ running = 1

\* ------------------------------------------------------------------------
\* The loop
\* ------------------------------------------------------------------------
\* for attempt in range(max_attempts): the end of the body, or continue
LoopNextShort(att) ==
    IF att + 1 < max_attempts - 1
    THEN [pc |-> "generate", attempt |-> att + 1]
    ELSE [pc |-> "return", attempt |-> att]

\* A loop that, out of attempts, hands nothing back.
LoopNextNoReturn(att) ==
    IF att + 1 < max_attempts
    THEN [pc |-> "generate", attempt |-> att + 1]
    ELSE [pc |-> "exhausted", attempt |-> att]

LoopNext(att) ==
    IF att + 1 < max_attempts
    THEN [pc |-> "generate", attempt |-> att + 1]
    ELSE [pc |-> "return", attempt |-> att]

\* if test_passed: passed = True; break
AfterTestNoBreak(test_passed, att) == LoopNext(att)

\* A loop that gives up after the first test, whatever its result.
AfterTestGivesUp(test_passed, att) == [pc |-> "return", attempt |-> att]

AfterTest(test_passed, att) ==
    IF test_passed THEN [pc |-> "return", attempt |-> att] ELSE LoopNext(att)

\* if not openai_approved
RejectsNothing(openai_approved) == FALSE

Rejects(openai_approved) == ~Truthy(openai_approved)

\* The providers answer as usual, or otherwise if they still may.
Answer(w) ==
    /\ w \in Worlds(path)
    /\ \/ w = usual
       \/ unusual < MaxUnusual /\ (w.gen = usual.gen \/ w.val = usual.val)
    /\ world' = w
    /\ unusual' = IF w = usual THEN unusual ELSE unusual + 1

\* data = request.json ... generation_prompt = f"..."
Start ==
    /\ pc = "start"
    /\ attempts' = <<>>
    /\ passed' = FALSE
    /\ generation_prompt' = GenerationPrompt(request.prompt)
    /\ attempt' = 0
    /\ pc' = "generate"
    /\ UNCHANGED <<path, request, code, loc, report, fault, usual, world, unusual, log,
                   exVars, tkVars, cmVars, pairVars>>

\* A request that carries the last failure back to the generator.
PromptWithFeedback(prompt, history) ==
    IF history = <<>> THEN prompt ELSE prompt \o <<"WS", "prose">>

\* gemini.generate_content(generation_prompt): what is sent, whatever the
\* attempts made so far
PromptSent(prompt, history) == prompt

\* path1 and path2: generate with Gemini, clean markdown, count tokens
Generate ==
    /\ pc = "generate"
    /\ \E w \in Worlds(path) :
        /\ Answer(w)
        /\ IF w.gen.raises
           THEN /\ pc' = "crashed"
                /\ fault' = "generation"
                /\ log' = Append(log, [LogEntry("raised") EXCEPT
                                         !.prompt = PromptSent(generation_prompt, attempts)])
                /\ UNCHANGED <<code, loc>>
           ELSE LET cleaned == CleanMarkdown(Strip(w.gen.text))
                    in_tokens == count_tokens(generation_prompt)
                    out_tokens == count_tokens(cleaned)
                IN /\ code' = cleaned
                   /\ loc' = [loc EXCEPT
                         !.elapsed = w.gen.elapsed,
                         !.in_tokens = in_tokens,
                         !.out_tokens = out_tokens,
                         !.cost = in_tokens * GEMINI_INPUT_COST
                                    + out_tokens * GEMINI_OUTPUT_COST]
                   /\ pc' = IF path = "path1" THEN "test" ELSE "validate"
                   /\ log' = Append(log, [LogEntry("returned") EXCEPT
                                            !.prompt = PromptSent(generation_prompt, attempts),
                                            !.tokens = in_tokens + out_tokens])
                   /\ UNCHANGED fault
    /\ UNCHANGED <<path, request, generation_prompt, attempt, attempts, passed,
                   report, usual, exVars, tkVars, cmVars, pairVars>>

\* An attempt record numbered from 0, like the loop variable.
Path1AttemptFromZero(att, l, test_passed, test_message) ==
    [attempt |-> att,
     time |-> Round2(l.elapsed),
     tokens_in |-> l.in_tokens,
     tokens_out |-> l.out_tokens,
     cost |-> Round6(l.cost),
     test_passed |-> test_passed,
     test_message |-> test_message]

\* The attempt record of path1
Path1Attempt(att, l, test_passed, test_message) ==
    [attempt |-> att + 1,
     time |-> Round2(l.elapsed),
     tokens_in |-> l.in_tokens,
     tokens_out |-> l.out_tokens,
     cost |-> Round6(l.cost),
     test_passed |-> test_passed,
     test_message |-> test_message]

\* The attempt records of path2
Path2Attempt(att, l, approved, test_passed, test_message) ==
    [attempt |-> att + 1,
     time |-> Round2(l.elapsed + l.openai_time),
     gemini_tokens |-> l.in_tokens + l.out_tokens,
     openai_tokens |-> l.openai_in + l.openai_out,
     cost |-> Round6(l.cost + l.openai_cost),
     openai_approved |-> approved,
     test_passed |-> test_passed,
     test_message |-> test_message]

\* path2, step 2: OpenAI validates; a rejection is recorded and the loop
\* continues without the unit test
Validate ==
    /\ pc = "validate"
    /\ path = "path2"
    /\ IF world.val.raises
       THEN /\ pc' = "crashed"
            /\ fault' = "validation"
            /\ log' = [log EXCEPT ![Len(log)].val = "raised"]
            /\ UNCHANGED <<loc, attempt, attempts>>
       ELSE LET validation_text == world.val.text
                openai_in == count_tokens(ValidationPrompt(request.prompt, code))
                openai_out == count_tokens(validation_text)
                openai_approved == ParseValidation(validation_text)
                l == [loc EXCEPT
                        !.openai_time = world.val.elapsed,
                        !.openai_in = openai_in,
                        !.openai_out = openai_out,
                        !.openai_cost = openai_in * OPENAI_INPUT_COST
                                          + openai_out * OPENAI_OUTPUT_COST,
                        !.validation_text = validation_text,
                        !.openai_approved = openai_approved]
                next == LoopNext(attempt)
            IN /\ loc' = l
               /\ log' = [log EXCEPT
                            ![Len(log)].val = "returned",
                            ![Len(log)].validation_text = validation_text,
                            ![Len(log)].approved = openai_approved,
                            ![Len(log)].tokens = @ + openai_in + openai_out]
               /\ UNCHANGED fault
               /\ IF Rejects(openai_approved)
                  THEN /\ attempts' = Append(attempts,
                              Path2Attempt(attempt, l, FALSE, FALSE, Rejected))
                       /\ pc' = next.pc
                       /\ attempt' = next.attempt
                  ELSE /\ pc' = "test"
                       /\ UNCHANGED <<attempt, attempts>>
    /\ UNCHANGED <<path, request, generation_prompt, passed, code, report,
                   usual, world, unusual, exVars, tkVars, cmVars, pairVars>>

\* Run the unit test, record the attempt, break on a pass
Test ==
    /\ pc = "test"
    /\ LET r == test_code(code, request.test_cases)
           next == AfterTest(r.passed, attempt)
       IN IF r.raised # "none"
          THEN /\ pc' = "crashed"
               /\ fault' = "executor"
               /\ log' = [log EXCEPT ![Len(log)].exec = "raised"]
               /\ UNCHANGED <<attempt, attempts, passed>>
          ELSE /\ attempts' = Append(attempts,
                      IF path = "path1"
                      THEN Path1Attempt(attempt, loc, r.passed, r.message)
                      ELSE Path2Attempt(attempt, loc, TRUE, r.passed, r.message))
               /\ passed' = IF r.passed THEN TRUE ELSE passed
               /\ pc' = next.pc
               /\ attempt' = next.attempt
               /\ log' = [log EXCEPT
                            ![Len(log)].exec = IF r.passed THEN "passed" ELSE "failed"]
               /\ UNCHANGED fault
    /\ UNCHANGED <<path, request, generation_prompt, code, loc, report,
                   usual, world, unusual, exVars, tkVars, cmVars, pairVars>>

\* sum(...) of a list of numbers
RECURSIVE Sum(_)
Sum(seq) == IF Len(seq) = 0 THEN 0 ELSE seq[1] + Sum(Tail(seq))

\* a['tokens_in'] + a['tokens_out'], a['gemini_tokens'] + a['openai_tokens']
AttemptTokens(a) ==
    IF path = "path1"
    THEN a.tokens_in + a.tokens_out
    ELSE a.gemini_tokens + a.openai_tokens

\* "Calculate totals" and the report handed to jsonify.  The sums are of
\* values already rounded to the recorded unit, so the final round() of
\* total_time and total_cost changes nothing.
ReportOfPassedOnly(att, p) ==
    [success |-> TRUE,
     passed |-> p,
     attempts |-> Len(att),
     total_time |-> Sum([i \in 1..Len(att) |-> att[i].time]),
     total_tokens |-> Sum([i \in 1..Len(att) |->
                            IF att[i].test_passed THEN AttemptTokens(att[i]) ELSE 0]),
     total_cost |-> Sum([i \in 1..Len(att) |-> att[i].cost]),
     details |-> att]

Report(att, p) ==
    [success |-> TRUE,
     passed |-> p,
     attempts |-> Len(att),
     total_time |-> Sum([i \in 1..Len(att) |-> att[i].time]),
     total_tokens |-> Sum([i \in 1..Len(att) |-> AttemptTokens(att[i])]),
     total_cost |-> Sum([i \in 1..Len(att) |-> att[i].cost]),
     details |-> att]

Return ==
    /\ pc = "return"
    /\ report' = Report(attempts, passed)
    /\ pc' = "done"
    /\ UNCHANGED <<path, request, generation_prompt, attempt, attempts, passed,
                   code, loc, fault, usual, world, unusual, log, exVars, tkVars, cmVars, pairVars>>

Next == Start \/ Generate \/ Validate \/ Test \/ Return

Spec == Init /\ [][Next]_vars

\* The handler has a next statement to run.
Running == pc \in {"start", "generate", "validate", "test", "return"}

\* The handler runs its next statement: control moves on.  Next is enabled
\* exactly while the handler is Running, and every step of Next is such a
\* step.
Step ==
    /\ Running
    /\ pc' \in {"generate", "validate", "test", "return", "done", "crashed"}
    /\ pc' # pc

\* Every step of the handler is a Step.
NextIsStep == [][Step]_vars

\* The handler is sequential code that keeps running: while it has a next
\* statement, it runs it.
SpecFair == Spec /\ WF_pc(Step)

\* ------------------------------------------------------------------------
\* Two invocations at once
\* ------------------------------------------------------------------------
\* The server runs each request's handler in a thread of its own.  Everything
\* a handler works on (attempts, passed, code, the prompts, the namespace
\* inside test_code) is a local of its call; the module's globals are the two
\* provider clients, which the handlers only call.  The variables of the
\* loop hold the locals of the invocation that is running, other those of
\* the one that is not.
Locals ==
    [path |-> path, request |-> request, pc |-> pc,
     generation_prompt |-> generation_prompt, attempt |-> attempt,
     attempts |-> attempts, passed |-> passed, code |-> code, loc |-> loc,
     report |-> report, fault |-> fault, usual |-> usual, world |-> world,
     unusual |-> unusual, log |-> log]

\* The providers of an invocation run next to another: the generator returns
\* code that loads, the validator a JSON object with a boolean verdict, the
\* same at every attempt.
PairWorlds(p) ==
    {w \in Worlds(p) :
        /\ ~w.gen.raises
        /\ Exec(CleanMarkdown(Strip(w.gen.text))).status = "ok"
        /\ p = "path2" =>
              /\ ~w.val.raises
              /\ \A i \in 1..Len(w.val.text) :
                    w.val.text[i] \in {"FENCE", "json", "WS", "J_TRUE", "J_FALSE"}}

\* The locals of a handler just entered
Entered(p, r, u) ==
    [path |-> p, request |-> r, pc |-> "start", generation_prompt |-> <<>>,
     attempt |-> 0, attempts |-> <<>>, passed |-> FALSE, code |-> <<>>,
     loc |-> NoLocals, report |-> <<>>, fault |-> "none", usual |-> u, world |-> u,
     unusual |-> MaxUnusual, log |-> <<>>]

InitPair ==
    /\ path \in {"path1", "path2"}
    /\ request \in Requests
    /\ pc = "start"
    /\ generation_prompt = <<>>
    /\ attempt = 0
    /\ attempts = <<>>
    /\ passed = FALSE
    /\ code = <<>>
    /\ loc = NoLocals
    /\ report = <<>>
    /\ fault = "none"
    /\ usual \in PairWorlds(path)
    /\ world = usual
    /\ unusual = MaxUnusual
    /\ log = <<>>
    /\ \E p \in {"path1", "path2"}, r \in Requests :
          \E u \in PairWorlds(p) : other = Entered(p, r, u)
    /\ running = 1
    /\ exIn = <<>>
    /\ exOut = <<>>
    /\ exN = 0
    /\ exHist = <<>>
    /\ tkText = <<>>
    /\ tkCount = 0
    /\ tkN = 0
    /\ cmReply = <<>>
    /\ cmCode = <<>>
    /\ cmN = 0

\* A list of attempts that is a global of the module: the thread that
\* resumes finds what the other one left in it.
ContextSwitchSharedAttempts ==
    /\ other' = Locals
    /\ path' = other.path
    /\ request' = other.request
    /\ pc' = other.pc
    /\ generation_prompt' = other.generation_prompt
    /\ attempt' = other.attempt
    /\ attempts' = attempts
    /\ passed' = other.passed
    /\ code' = other.code
    /\ loc' = other.loc
    /\ report' = other.report
    /\ fault' = other.fault
    /\ usual' = other.usual
    /\ world' = other.world
    /\ unusual' = other.unusual
    /\ log' = other.log
    /\ running' = 3 - running
    /\ UNCHANGED <<exVars, tkVars, cmVars>>

\* The scheduler suspends the running handler and resumes the other one:
\* each finds its locals as it left them.
ContextSwitch ==
    /\ other' = Locals
    /\ path' = other.path
    /\ request' = other.request
    /\ pc' = other.pc
    /\ generation_prompt' = other.generation_prompt
    /\ attempt' = other.attempt
    /\ attempts' = other.attempts
    /\ passed' = other.passed
    /\ code' = other.code
    /\ loc' = other.loc
    /\ report' = other.report
    /\ fault' = other.fault
    /\ usual' = other.usual
    /\ world' = other.world
    /\ unusual' = other.unusual
    /\ log' = other.log
    /\ running' = 3 - running
    /\ UNCHANGED <<exVars, tkVars, cmVars>>

NextPair == Start \/ Generate \/ Validate \/ Test \/ Return \/ ContextSwitch

SpecPair == InitPair /\ [][NextPair]_vars

\* ------------------------------------------------------------------------
\* The executor on its own
\* ------------------------------------------------------------------------
\* Source texts handed to test_code
ExecSources ==
    { <<"SRC_DOUBLE">>, <<"SRC_IDENT">>, <<"SRC_ONE">>, <<"SRC_EVEN">>,
      <<"SRC_ADD">>, <<"SRC_NONE">>, <<"SRC_G">>, <<"SRC_VAR">>, <<"SRC_RAISE">>,
      <<"SRC_EXIT_CALL">>, <<"SRC_EXIT_LOAD">>, <<"SRC_LOADERR">>, <<"SRC_SYNTAX">>,
      <<"SRC_G", "WS", "SRC_DOUBLE">>, <<"js", "WS", "SRC_IDENT">>, <<>> }

\* Test-case lists handed to test_code
ExecTestLists ==
    << <<>>,
       <<TestCase("f", PyInt(5), PyInt(10))>>,
       <<TestCase("f", PyInt(5), PyInt(11))>>,
       <<TestCase("f", PyInt(5), PyFloat(10))>>,
       <<TestCase("g", PyInt(5), PyInt(5))>>,
       <<TestCase("f", PyInt(4), PyBool(TRUE)), TestCase("f", PyInt(7), PyBool(FALSE))>>,
       <<TestCase("f", PyInt(3), PyInt(1)), TestCase("f", PyInt(4), PyInt(1))>>,
       <<TestCase("f", PyInt(0), PyInt(0)), TestCase("f", PyInt(0), PyNone)>>,
       <<TestCase("f", PyStr("1"), PyInt(1)), TestCase("g", PyInt(1), PyInt(1))>>,
       <<TestCase("f", PyList(<<PyInt(1), PyInt(2)>>), PyInt(3))>>,
       <<TestCase("f", PyList(<<PyInt(1)>>), PyList(<<PyInt(1), PyInt(1)>>))>>,
       <<TestCase("f", PyInt(5), PyInt(10)), TestCase("f", PyInt(5), PyInt(11)),
         TestCase("g", PyInt(5), PyInt(5))>> >>

\* test_code is called at most MaxCalls times.
MaxCalls == 2

InitExec ==
    /\ path = "path1"
    /\ request = [prompt |-> <<>>, test_cases |-> <<>>]
    /\ pc = "idle"
    /\ generation_prompt = <<>>
    /\ attempt = 0
    /\ attempts = <<>>
    /\ passed = FALSE
    /\ code = <<>>
    /\ loc = NoLocals
    /\ report = <<>>
    /\ fault = "none"
    /\ usual = [gen |-> NoReply, val |-> NoReply]
    /\ world = usual
    /\ unusual = 0
    /\ log = <<>>
    /\ exIn = [code |-> <<>>, test_cases |-> <<>>]
    /\ exOut = <<>>
    /\ exN = 0
    /\ exHist = <<>>
    /\ tkText = <<>>
    /\ tkCount = 0
    /\ tkN = 0
    /\ cmReply = <<>>
    /\ cmCode = <<>>
    /\ cmN = 0
    /\ other = <<>>
    /\ running = 1

ExecuteCall ==
    /\ exN < MaxCalls
    /\ \E src \in ExecSources, i \in 1..Len(ExecTestLists) :
        /\ exIn' = [code |-> src, test_cases |-> ExecTestLists[i]]
        /\ exOut' = test_code(src, ExecTestLists[i])
        /\ exHist' = Append(exHist, Exec(src).ns)
    /\ exN' = exN + 1
    /\ UNCHANGED <<loopVars, tkVars, cmVars, pairVars>>

NextExec == ExecuteCall

SpecExec == InitExec /\ [][NextExec]_vars

\* ------------------------------------------------------------------------
\* Properties
\* ------------------------------------------------------------------------
Iterations == 1..Len(log)
Ended == pc \in {"done", "crashed"}
ValidationRejected(i) == log[i].val = "returned" /\ ~Truthy(log[i].approved)

\* C1: in both loops, whatever the generation, validation and executor steps
\* do, the loop body runs at most max_attempts times, and an invocation in
\* which no attempt passes ends with a report that has passed = false and
\* all max_attempts attempts in it.
C1_BoundedAndExhausts ==
    /\ Len(log) <= max_attempts
    /\ (Ended /\ \A i \in Iterations : log[i].exec # "passed")
          => /\ pc = "done"
             /\ report.passed = FALSE
             /\ Len(report.details) = Len(log)
             /\ Len(report.details) = max_attempts

\* C2: single-stage loop: if the executor returns passed = false on every
\* attempt, the loop runs exactly max_attempts times and the report has
\* passed = false and attempt_count = max_attempts.
C2_AllFailRunsMaxAttempts ==
    (path = "path1" /\ Ended /\ \A i \in Iterations : log[i].exec = "failed")
        => /\ pc = "done"
           /\ Len(log) = max_attempts
           /\ report.passed = FALSE
           /\ report.attempts = max_attempts

C2_Witness ==
    /\ path = "path1"
    /\ pc = "done"
    /\ Len(log) = max_attempts
    /\ \A i \in Iterations : log[i].exec = "failed"

\* C3: if the first attempt whose test passes is attempt k, the loop stops
\* there: generation has been called k times and is never called again, and
\* the report has passed = true and attempt_count = k.
C3_StopsAtFirstPass ==
    \A k \in Iterations :
        (log[k].exec = "passed" /\ \A j \in 1..(k - 1) : log[j].exec # "passed")
            => /\ Len(log) = k
               /\ pc \in {"return", "done"}
               /\ passed = TRUE
               /\ Len(attempts) = k
               /\ path = "path2" => attempts[k].openai_approved = TRUE
               /\ pc = "done" => (report.passed = TRUE /\ report.attempts = k)

C3_Witness ==
    /\ path = "path2"
    /\ pc = "done"
    /\ Len(log) = max_attempts
    /\ log[max_attempts].exec = "passed"
    /\ report.attempts = max_attempts

\* C4: two-stage loop: an attempt that validation rejects does not reach the
\* executor, is recorded as failed with the rejection sentinel, and is
\* followed by the next generation; so when every attempt is rejected the
\* executor is never called and every test_message is the sentinel.
C4_RejectionSkipsExecutor ==
    \A i \in Iterations :
        ValidationRejected(i)
            => /\ log[i].exec = "none"
               /\ Len(attempts) >= i
               /\ attempts[i].attempt = i
               /\ attempts[i].openai_approved = FALSE
               /\ attempts[i].test_passed = FALSE
               /\ attempts[i].test_message = Rejected
               /\ i < max_attempts => (Len(log) > i \/ (pc = "generate" /\ attempt = i))

C4_Witness ==
    /\ path = "path2"
    /\ pc = "done"
    /\ Len(log) = max_attempts
    /\ \A i \in Iterations : ValidationRejected(i) /\ log[i].exec = "none"
    /\ \A i \in Iterations : report.details[i].test_message = Rejected

\* The value the function of test case i returns (the case is reached and the
\* call returns).
ReturnedValue(src, test) ==
    Call(Exec(src).ns[test.function], Args(test.input)).value

\* C5: the executor's comparison is type-sensitive: a call of execute in
\* which some case returns a value of another type than the expected value
\* does not return passed = true.
C5_StrictTypeSensitiveEquality ==
    (exN > 0 /\ exOut.raised = "none" /\ exOut.passed)
        => \A i \in 1..Len(exIn.test_cases) :
              ReturnedValue(exIn.code, exIn.test_cases[i]).t
                  = exIn.test_cases[i].expected.t

\* C6: execute never propagates a fault to the loop that called it: every
\* call made by an attempt returns a (passed, message) pair.
C6_ExecutorContainsFaults ==
    /\ fault # "executor"
    /\ \A i \in Iterations : log[i].exec # "raised"

\* C7: an attempt in which the generation call raises is recorded as a failed
\* attempt and the loop goes on; the handler does not end with the exception.
C7_GenerationFaultIsRecorded ==
    \A i \in Iterations :
        log[i].gen = "raised"
            => /\ fault = "none"
               /\ pc # "crashed"
               /\ Len(attempts) >= i
               /\ attempts[i].test_passed = FALSE

\* C8: every report carries final_code, the code of the last generation step
\* that ran, and it is not empty.
C8_ReportCarriesFinalCode ==
    pc = "done"
        => /\ "final_code" \in DOMAIN report
           /\ report.final_code = code
           /\ Len(report.final_code) > 0

\* C9: in every report, total_tokens, total_time and total_cost are the sums
\* of the tokens counted, the times and the costs of all attempts made,
\* failed and rejected ones included.
C9_TotalsAreSums ==
    pc = "done"
        => LET d == report.details
           IN /\ Len(d) = Len(log)
              /\ report.total_tokens = Sum([i \in 1..Len(log) |-> log[i].tokens])
              /\ report.total_tokens = Sum([i \in 1..Len(d) |-> AttemptTokens(d[i])])
              /\ report.total_time = Sum([i \in 1..Len(d) |-> d[i].time])
              /\ report.total_cost = Sum([i \in 1..Len(d) |-> d[i].cost])

C9_Witness ==
    /\ path = "path2"
    /\ pc = "done"
    /\ \E i, j \in Iterations : ValidationRejected(i) /\ log[j].exec = "failed"
    /\ report.total_tokens > 0
    /\ report.total_cost > 0

\* The reply, after an optional fenced json block is stripped, is no JSON
\* text, or is one without the key valid.
Unparseable(validation_text) ==
    LET text == IF FenceAt(validation_text, "json") # {}
                THEN FirstBlock(validation_text, "json")
                ELSE validation_text
        j == json_loads(text)
    IN ~j.ok \/ ~j.isDict \/ ~j.hasValid

\* C10: validation parsing is fail-closed: an attempt whose validator reply
\* does not parse as JSON or has no valid key is recorded with approved =
\* false and does not reach the executor, and the handler goes on.
C10_ValidationParsingFailsClosed ==
    \A i \in Iterations :
        (log[i].val = "returned" /\ Unparseable(log[i].validation_text))
            => /\ ~Truthy(log[i].approved)
               /\ log[i].exec = "none"
               /\ Len(attempts) >= i
               /\ attempts[i].openai_approved = FALSE
               /\ i = Len(log) => fault = "none"

C10_Witness ==
    /\ pc = "done"
    /\ \E i, j \in Iterations :
          /\ log[i].val = "returned"
          /\ ~json_loads(log[i].validation_text).ok
          /\ log[j].val = "returned"
          /\ json_loads(log[j].validation_text).ok
          /\ Unparseable(log[j].validation_text)

\* ------------------------------------------------------------------------
\* count_tokens on its own
\* ------------------------------------------------------------------------
\* Texts of one-word tokens and whitespace, at most MaxTextLen tokens long.
MaxTextLen == 7

TokenTexts == UNION {[1..n -> {"prose", "WS"}] : n \in 0..MaxTextLen}

\* count_tokens is called at most MaxCounts times.
MaxCounts == 2

InitTokens == InitExec

CountTokens ==
    /\ tkN < MaxCounts
    /\ \E text \in TokenTexts :
        /\ tkText' = text
        /\ tkCount' = count_tokens(text)
    /\ tkN' = tkN + 1
    /\ UNCHANGED <<loopVars, exVars, cmVars, pairVars>>

NextTokens == CountTokens

SpecTokens == InitTokens /\ [][NextTokens]_vars

\* C20: the generation request is the same on every attempt: the prompt is
\* built once, from the requirement alone, before the loop, no attempt
\* changes it, and no failure message or validation reason of an earlier
\* attempt is part of what is sent.
C20_GenerationRequestNeverChanges ==
    /\ pc # "start" => generation_prompt = GenerationPrompt(request.prompt)
    /\ \A i \in Iterations : log[i].prompt = GenerationPrompt(request.prompt)

\* A second request was sent after a first attempt failed its test.
C20_Witness ==
    /\ Len(log) >= 2
    /\ Len(attempts) >= 1
    /\ attempts[1].test_message.kind = "Test failed"

\* The same, after a rejection by the validator.
C20_WitnessRejected ==
    /\ Len(log) >= 2
    /\ Len(attempts) >= 1
    /\ attempts[1].test_message = Rejected

\* The invocation has handed back a report, out of the loop by a pass or by
\* having used every attempt.
Reported ==
    /\ pc = "done"
    /\ report.success
    /\ report.passed \/ report.attempts = max_attempts

\* C13: every invocation of either loop eventually ends, passed or
\* exhausted, and returns a report, provided every generation, validation
\* and executor call returns (one that raises has not); no execution goes
\* back to generating for ever.
C13_EveryInvocationTerminates == <>(pc = "crashed" \/ Reported)

\* An invocation that used every attempt and returned its report.
C13_Witness == Reported /\ ~report.passed /\ Len(log) = max_attempts

\* What the running invocation returns when it runs alone and its providers
\* answer as usual at every attempt: the outcome of one attempt ...
SoloOutcome ==
    LET cleaned == CleanMarkdown(Strip(usual.gen.text))
        approved == path = "path1" \/ Truthy(ParseValidation(usual.val.text))
        r == test_code(cleaned, request.test_cases)
    IN [code |-> cleaned,
        approved |-> approved,
        passed |-> approved /\ r.passed,
        message |-> IF approved THEN r.message ELSE Rejected]

\* ... the record of attempt i ...
SoloAttempt(i) ==
    LET in_tokens == count_tokens(GenerationPrompt(request.prompt))
        out_tokens == count_tokens(SoloOutcome.code)
        openai_in == count_tokens(ValidationPrompt(request.prompt, SoloOutcome.code))
        openai_out == count_tokens(usual.val.text)
        l1 == [NoLocals EXCEPT
                 !.elapsed = usual.gen.elapsed,
                 !.in_tokens = in_tokens,
                 !.out_tokens = out_tokens,
                 !.cost = in_tokens * GEMINI_INPUT_COST + out_tokens * GEMINI_OUTPUT_COST]
        l2 == [l1 EXCEPT
                 !.openai_time = usual.val.elapsed,
                 !.openai_in = openai_in,
                 !.openai_out = openai_out,
                 !.openai_cost = openai_in * OPENAI_INPUT_COST
                                   + openai_out * OPENAI_OUTPUT_COST]
    IN IF path = "path1"
       THEN Path1Attempt(i - 1, l1, SoloOutcome.passed, SoloOutcome.message)
       ELSE Path2Attempt(i - 1, l2, SoloOutcome.approved, SoloOutcome.passed,
                         SoloOutcome.message)

\* ... and the report: one attempt if it passes, max_attempts if it does not.
SoloReport ==
    LET n == IF SoloOutcome.passed THEN 1 ELSE max_attempts
    IN Report([i \in 1..n |-> SoloAttempt(i)], SoloOutcome.passed)

\* The report above is the one of an invocation run alone (Spec) whose
\* providers answered as usual throughout.
SoloReportIsLoneRun == (pc = "done" /\ unusual = 0) => report = SoloReport

MaxReplyLen == 4

ReplyTokens == {"FENCE", "python", "js", "WS", "prose"}

LongReplies ==
    { <<"FENCE", "python", "WS", "SRC_DOUBLE", "WS", "FENCE">>,
      <<"FENCE", "WS", "SRC_DOUBLE", "WS", "FENCE">>,
      <<"FENCE", "js", "WS", "SRC_DOUBLE", "WS", "FENCE">>,
      <<"prose", "WS", "FENCE", "python", "WS", "SRC_DOUBLE", "WS", "FENCE", "WS", "prose">>,
      <<"FENCE", "python", "WS", "SRC_DOUBLE", "WS", "FENCE", "WS",
        "FENCE", "python", "WS", "SRC_IDENT", "WS", "FENCE">>,
      <<"FENCE", "python", "WS", "SRC_DOUBLE", "WS", "FENCE", "WS",
        "FENCE", "WS", "SRC_IDENT", "WS", "FENCE">>,
      <<"FENCE", "WS", "SRC_DOUBLE", "WS", "FENCE", "WS",
        "FENCE", "python", "WS", "SRC_IDENT", "WS", "FENCE">>,
      <<"FENCE", "WS", "SRC_DOUBLE", "WS", "FENCE", "WS",
        "FENCE", "WS", "SRC_IDENT", "WS", "FENCE">>,
      <<"WS", "SRC_DOUBLE", "WS", "SRC_G", "WS">> }

Replies == LongReplies \cup UNION {[1..n -> ReplyTokens] : n \in 0..MaxReplyLen}

\* The cleaning runs at most MaxCleans times.
MaxCleans == 2

InitClean == InitExec

\* code = response.text.strip(), then "Clean markdown if present"
Clean ==
    /\ cmN < MaxCleans
    /\ \E text \in Replies :
        /\ cmReply' = text
        /\ cmCode' = CleanMarkdown(Strip(text))
    /\ cmN' = cmN + 1
    /\ UNCHANGED <<loopVars, exVars, tkVars, pairVars>>

NextClean == Clean

SpecClean == InitClean /\ [][NextClean]_vars

\* Iteration i ran the executor and the code did not pass: it failed a check
\* of test_code or raised out of it.
ExecutionFault(i) == log[i].exec \in {"failed", "raised"}

\* C22: every execution fault (load failure, missing function, non-callable
\* binding, runtime exception, value mismatch) ends its own attempt only:
\* the attempt is recorded with test_passed = false and the fault's message
\* and, when it was not the last of the max_attempts, the next attempt runs,
\* starting with a new generation call.
C22_FaultEndsItsAttemptOnly ==
    \A i \in Iterations :
        ExecutionFault(i)
            => /\ Len(attempts) >= i
               /\ attempts[i].attempt = i
               /\ attempts[i].test_passed = FALSE
               /\ attempts[i].test_message.kind \in
                     {"Syntax error in code", "Code execution error",
                      "Function not found in code", "is not a function",
                      "Function crashed", "Test failed"}
               /\ i = Len(log) =>
                     attempts[i].test_message = test_code(code, request.test_cases).message
               /\ i < max_attempts => (Len(log) > i \/ pc = "generate")

\* C23: in every returned report the attempt records are numbered 1, 2, ...,
\* n in the order they ran, with n = the report's attempts and
\* 1 <= n <= max_attempts; at most one record has test_passed = true and, if
\* one has, it is the last; and passed is true exactly when the last record
\* has test_passed = true.
C23_ReportIsWellFormed ==
    pc = "done"
        => LET n == report.attempts
               details == report.details
           IN /\ n = Len(details)
              /\ n = Len(log)
              /\ 1 <= n /\ n <= max_attempts
              /\ \A i \in 1..n :
                    /\ details[i].attempt = i
                    /\ details[i].test_passed = (log[i].exec = "passed")
                    /\ AttemptTokens(details[i]) = log[i].tokens
                    /\ details[i].test_passed => i = n
              /\ report.passed = details[n].test_passed

\* A report of three attempts, the third of which passed.
C23_Witness ==
    /\ pc = "done"
    /\ report.attempts = 3
    /\ report.passed
    /\ report.details[3].test_passed

\* C24: a report with passed = false has all max_attempts attempts in it (a
\* report of fewer attempts has passed = true): the loop never gives up
\* early, whether the retries came from failed tests, from rejections by the
\* validator, or from both.
C24_FailureReportsHaveEveryAttempt ==
    (pc = "done" /\ ~report.passed)
        => /\ report.attempts = max_attempts
           /\ Len(report.details) = max_attempts
           /\ \A i \in 1..max_attempts : ~report.details[i].test_passed

\* A report without a pass whose retries came from rejections and from a
\* failed test.
C24_Witness ==
    /\ pc = "done"
    /\ path = "path2"
    /\ ~report.passed
    /\ \E i, j \in 1..Len(report.details) :
          /\ ~report.details[i].openai_approved
          /\ report.details[j].openai_approved

\* An iteration of the loop is over when a later one has begun or the
\* invocation has ended.
Over(i) == i < Len(log) \/ Ended
ExecutorInvocations == {i \in Iterations : log[i].exec # "none"}
RecordedApproved == {i \in 1..Len(attempts) : attempts[i].openai_approved}

\* C25: in the two-stage loop every attempt runs generation, then validation,
\* then (only if approved) execution: validation never precedes the reply of
\* the generator, execution never precedes an approval, an attempt that is
\* over has had its generation call and, for the code generated, its
\* validation call, the executor
\* has been invoked as many times as attempts are recorded with
\* openai_approved = true, and every attempt recorded with test_passed = true
\* is recorded with openai_approved = true.
C25_TwoStageOrder ==
    path = "path2"
        => /\ \A i \in Iterations :
                /\ log[i].gen # "none"
                /\ log[i].val # "none" => log[i].gen = "returned"
                /\ log[i].exec # "none"
                      => log[i].val = "returned" /\ ~Rejects(log[i].approved)
                /\ (Over(i) /\ log[i].gen = "returned") => log[i].val # "none"
           /\ Cardinality(ExecutorInvocations) = Cardinality(RecordedApproved)
           /\ \A i \in 1..Len(attempts) :
                attempts[i].test_passed => attempts[i].openai_approved

\* C26: an attempt of the two-stage loop goes on to the executor only when
\* the "valid" field of the validator's parsed reply is the boolean true; a
\* reply with any other value (the string "false", a number) is a rejection,
\* recorded with openai_approved = false and without a run of the executor.
C26_OnlyBooleanTrueApproves ==
    path = "path2"
        => \A i \in Iterations :
              /\ log[i].exec # "none" => log[i].approved = PyBool(TRUE)
              /\ (log[i].val = "returned" /\ log[i].approved # PyBool(TRUE)
                    /\ i <= Len(attempts))
                    => /\ ~attempts[i].openai_approved
                       /\ attempts[i].test_message = Rejected

\* Attempt i of the record ran the executor.
Executed(i) == path = "path1" \/ attempts[i].openai_approved

\* C27: with an empty list of test cases the executor returns (true, all
\* tests passed) for every code that loads, with no function looked up or
\* called; so the loop ends with a pass on the first attempt that runs the
\* executor (every attempt in path1, an approved one in path2) on code that
\* loads: an attempt that ran the executor and did not pass failed to load.
C27_EmptyTestListPassesOnLoad ==
    request.test_cases = <<>>
        => /\ (pc = "test" /\ Exec(code).status = "ok")
                => LET r == test_code(code, request.test_cases)
                   IN /\ r.raised = "none"
                      /\ r.passed
                      /\ r.message = AllPassed
                      /\ r.invoked = 0
                      /\ r.reached = 0
           /\ \A i \in 1..Len(attempts) :
                Executed(i)
                    => IF attempts[i].test_passed
                       THEN /\ attempts[i].test_message = AllPassed
                            /\ i = Len(attempts)
                            /\ passed
                            /\ pc \in {"return", "done"}
                       ELSE attempts[i].test_message.kind \in
                               {"Syntax error in code", "Code execution error"}
           /\ (Len(attempts) > 0 /\ Len(attempts) = Len(log)
                 /\ log[Len(log)].exec # "none")
                => attempts[Len(attempts)].test_passed = (Exec(code).status = "ok")
           /\ (pc = "done" /\ \E i \in 1..Len(attempts) : attempts[i].test_passed)
                => report.passed

\* A two-stage run without test cases that passes on its third attempt, the
\* first approved one whose code loads: the first was approved and did not
\* load.
C27_Witness ==
    /\ pc = "done"
    /\ path = "path2"
    /\ request.test_cases = <<>>
    /\ report.passed
    /\ report.attempts = 3
    /\ report.details[1].openai_approved
    /\ ~report.details[1].test_passed

\* ------------------------------------------------------------------------
\* Properties of the executor on its own
\* ------------------------------------------------------------------------
Called == exN > 0
Loaded == Exec(exIn.code)
Cases == 1..Len(exIn.test_cases)

\* C11: when loading the source fails, execute returns passed = false with
\* no test case attempted and no function invoked: a syntax failure with the
\* syntax-error message, any other exception raised by the load with a
\* message too.
C11_LoadFailureReturnsFalse ==
    (Called /\ Loaded.status # "ok")
        => /\ exOut.raised = "none"
           /\ exOut.passed = FALSE
           /\ exOut.reached = 0
           /\ exOut.invoked = 0
           /\ Loaded.status = "SyntaxError"
                 => exOut.message.kind = "Syntax error in code"

\* Test case i, run in the namespace the source builds: its function is
\* there, is callable, returns, and returns a value equal to expected.
CaseGood(i) ==
    LET test == exIn.test_cases[i]
        func == Loaded.ns[test.function]
        r == Call(func, Args(test.input))
    IN /\ func.bound
       /\ func.callable
       /\ r.raised = "none"
       /\ PyEq(r.value, test.expected)

\* C12: execute returns (true, "all tests passed") exactly when the source
\* loads and every test case is good, and returns passed = false in every
\* other case.
C12_PassedExactlyWhenAllGood ==
    Called
        => LET good == Loaded.status = "ok" /\ \A i \in Cases : CaseGood(i)
           IN /\ exOut.raised = "none"
              /\ exOut.passed = good
              /\ good => exOut.message = AllPassed

\* The first test case of the list that is not good, 0 when all are.
FirstFailing ==
    IF \A i \in Cases : CaseGood(i) THEN 0
    ELSE Min({i \in Cases : ~CaseGood(i)})

\* What the message of a failing test case has to say.
Describes(message, i) ==
    LET test == exIn.test_cases[i]
        func == Loaded.ns[test.function]
        r == Call(func, Args(test.input))
    IN IF ~func.bound
       THEN message.kind = "Function not found in code" /\ message.func = test.function
       ELSE IF ~func.callable
       THEN message.kind = "is not a function" /\ message.func = test.function
       ELSE IF r.raised # "none"
       THEN message.kind = "Function crashed"
       ELSE /\ message.kind = "Test failed"
            /\ message.func = test.function
            /\ message.input = test.input
            /\ message.result = r.value
            /\ message.expected = test.expected

\* C15: the test cases run in input order and the executor stops at the
\* first failing one (function missing, not callable, crashing, or returning
\* another value than expected): no function of a later case is invoked and
\* the returned message describes that first failing case.
C15_StopsAtFirstFailingCase ==
    (Called /\ Loaded.status = "ok" /\ FirstFailing > 0)
        => /\ exOut.reached = FirstFailing
           /\ exOut.invoked <= FirstFailing
           /\ \A j \in 1..exOut.invoked : exOut.args[j] = Args(exIn.test_cases[j].input)
           /\ exOut.raised = "none"
                 => /\ exOut.passed = FALSE
                    /\ Describes(exOut.message, FirstFailing)

\* The second of three cases returns a wrong value: the third is not run.
C15_Witness ==
    /\ Called
    /\ Len(exIn.test_cases) = 3
    /\ Loaded.status = "ok"
    /\ FirstFailing = 2
    /\ exOut.message.kind = "Test failed"
    /\ exOut.invoked = 2

\* Test case i is reached: the source loaded and every case before it is good.
Reached(i) == Called /\ Loaded.status = "ok" /\ \A j \in 1..(i - 1) : CaseGood(j)

\* C16: a reached test case whose function is absent from the namespace ends
\* the call with (false, function not found) naming the function and nothing
\* invoked for that case; one whose name is bound to something that is not
\* callable ends it with (false, "'<name>' is not a function").
C16_MissingOrNotCallable ==
    \A i \in Cases :
        LET test == exIn.test_cases[i]
            func == Loaded.ns[test.function]
        IN (Reached(i) /\ ~(func.bound /\ func.callable))
              => /\ exOut.raised = "none"
                 /\ exOut.passed = FALSE
                 /\ exOut.invoked = i - 1
                 /\ exOut.message.func = test.function
                 /\ exOut.message.kind = IF func.bound THEN "is not a function"
                                         ELSE "Function not found in code"

\* Both cases happen, one of them after a first case that passed.
C16_Witness ==
    /\ Called
    /\ Len(exIn.test_cases) = 2
    /\ Reached(2)
    /\ exOut.message.kind = "Function not found in code"
    /\ exOut.invoked = 1

C16_WitnessNotCallable ==
    Called /\ Loaded.status = "ok" /\ exOut.message.kind = "is not a function"

\* C18: a test case whose input is a sequence (a list) has its function
\* called with the elements spread as positional arguments, as many as the
\* list is long; any other input, a string included, is passed as exactly
\* one argument.
C18_ListInputIsSpread ==
    Called
        => \A k \in 1..exOut.invoked :
              LET inputs == exIn.test_cases[k].input
                  passed_args == exOut.args[k]
              IN IF inputs.t = "list"
                 THEN /\ Len(passed_args) = Len(inputs.v)
                      /\ \A j \in 1..Len(inputs.v) : passed_args[j] = inputs.v[j]
                 ELSE /\ Len(passed_args) = 1
                      /\ passed_args[1] = inputs

\* A two-parameter function, called on a list of two, returns their sum.
C18_Witness ==
    /\ Called
    /\ exOut.raised = "none"
    /\ exOut.passed
    /\ exOut.invoked = 1
    /\ exIn.test_cases[1].input.t = "list"
    /\ Len(exOut.args[1]) = 2

\* A string is one argument.
C18_WitnessScalar ==
    Called /\ exOut.invoked >= 1 /\ exIn.test_cases[1].input.t = "str"
           /\ Len(exOut.args[1]) = 1

\* The source binds name n: one of its statements does.
BoundBySource(source, n) ==
    \E i \in 1..Len(source) :
        Stmt(source[i]).effect = "bind" /\ Stmt(source[i]).name = n

\* C19: every call starts from a fresh, empty namespace: after a load that
\* succeeds the namespace holds the names the call's own source binds and no
\* others, whatever earlier calls bound; so a call whose source does not
\* define the function of a test case it reaches returns "not found".
C19_FreshNamespacePerCall ==
    (Called /\ Loaded.status = "ok")
        => /\ \A n \in FuncNames :
                 exHist[exN][n].bound <=> BoundBySource(exIn.code, n)
           /\ \A i \in Cases :
                 (Reached(i) /\ ~BoundBySource(exIn.code, exIn.test_cases[i].function))
                    => /\ exOut.passed = FALSE
                       /\ exOut.message.kind = "Function not found in code"
                       /\ exOut.message.func = exIn.test_cases[i].function

\* The first call bound f; the second, whose source does not, finds no f.
C19_Witness ==
    /\ exN = 2
    /\ exHist[1]["f"].bound
    /\ Loaded.status = "ok"
    /\ ~BoundBySource(exIn.code, "f")
    /\ Len(exIn.test_cases) > 0
    /\ exIn.test_cases[1].function = "f"
    /\ exOut.message.kind = "Function not found in code"

\* The executor on an empty list of test cases: every source that loads
\* passes with no function called, whatever it binds or leaves unbound.
EmptyListPassesEverySourceThatLoads ==
    (Called /\ exIn.test_cases = <<>> /\ Loaded.status = "ok")
        => /\ exOut.raised = "none"
           /\ exOut.passed
           /\ exOut.message = AllPassed
           /\ exOut.invoked = 0
           /\ exOut.reached = 0

\* ------------------------------------------------------------------------
\* Properties of count_tokens
\* ------------------------------------------------------------------------
\* The whitespace-separated words of a text of one-word tokens: the places
\* where a run of tokens starts.
Words(text) ==
    Cardinality({i \in 1..Len(text) :
                    text[i] # "WS" /\ (i = 1 \/ text[i - 1] = "WS")})

\* C17 (as the specification states it): the estimate of every text is
\* round(word_count * 1.3).
C17_TokensAreRounded ==
    tkN > 0 => tkCount = RoundDiv(13 * Words(tkText), 10)

\* C17 (as the code has it): the estimate of every text is word_count * 1.3
\* truncated to an integer, the largest integer not above it; being a
\* function of the word count alone, it is the same at every call on the
\* same text.
C17_TokensAreTruncated ==
    tkN > 0
        => /\ 10 * tkCount <= 13 * Words(tkText)
           /\ 13 * Words(tkText) < 10 * (tkCount + 1)

\* Two words: 2.6 is estimated as 2, where rounding gives 3.
C17_Witness == tkN > 0 /\ Words(tkText) = 2 /\ tkCount = 2

\* ------------------------------------------------------------------------
\* Properties of the markdown cleaning
\* ------------------------------------------------------------------------
LanguageTags == {"python", "js", "json"}

\* The first fenced block of a text with two fences or more: from its first
\* fence, and the language tag when one follows it directly, to the next
\* fence; its contents, trimmed.
FirstFencedContents(text) ==
    LET fences == FenceAt(text, "")
        open == Min(fences)
        close == Min(fences \ {open})
        tagged == open + 1 < close /\ text[open + 1] \in LanguageTags
        from == IF tagged THEN open + 2 ELSE open + 1
    IN Strip(SubSeq(text, from, close - 1))

\* C21: when the reply holds one or more fenced blocks, the code of the
\* attempt is the contents of the first of them, whatever its language tag
\* and whatever follows it; when the reply holds no fence, the code is the
\* trimmed reply.
C21_FirstFencedBlockIsTheCode ==
    cmN > 0
        => LET reply == Strip(cmReply)
               fences == FenceAt(reply, "")
           IN /\ Cardinality(fences) >= 2 => cmCode = FirstFencedContents(reply)
              /\ fences = {} => cmCode = reply

====
